---- MODULE Spec2Model ----
(***************************************************************************)
(* Environment probe and mount preparation layer of the migrator's stage1: *)
(*   Mount::from_mtab   (stage1/block_device_info/mount.rs)                *)
(*   get_os_arch, is_secure_boot, whereis, mount_fs   (stage1/utils.rs)    *)
(* Text is modelled as a sequence of one-character strings, so that        *)
(* lines(), split_whitespace(), split(' '), starts_with(), to_lowercase()  *)
(* and the regex are computed character by character.                      *)
(***************************************************************************)
EXTENDS Integers, Sequences, FiniteSets, TLC

VARIABLES
    \* Mount::from_mtab
    mtab_file,      \* /etc/mtab as the file system holds it
    mtab_str,       \* the text read_to_string returned
    line_no,        \* index of the next line of the enumerate() loop
    mounts,         \* the MountTab under construction
    mtab_pc,        \* position inside from_mtab
    mtab_res,       \* the value from_mtab returned
    \* get_os_arch
    uname_call,     \* what call(UNAME_CMD, ["-m"], true) returned
    arch_pc,        \* position inside get_os_arch
    arch_res,       \* the value get_os_arch returned
    \* whereis
    files,          \* the paths at which file_exists finds a file
    whereis_cmd,    \* the cmd argument
    whereis_call,   \* what call(WHEREIS_CMD, ["-b", cmd], true) returned
    whereis_pc,     \* position inside whereis
    whereis_res,    \* the value whereis returned
    \* is_secure_boot
    efi_dir,        \* what dir_exists(SYS_EFI_DIR) finds
    mokutil_path,   \* the path whereis(MOKUTIL_CMD) resolved
    mokutil_call,   \* what call(&mokutil_path, &["--sb-state"], true) returned
    sb_invoked,     \* the collaborators is_secure_boot has invoked, in order
    sb_pc,          \* position inside is_secure_boot
    sb_res,         \* the value is_secure_boot returned
    \* mount_fs
    dirs,           \* the directories that exist
    active_mounts,  \* the mounts the kernel holds, in the order they were made
    mig_info,       \* the paths MigrateInfo::add_mount was given, in order
    mnt_args,       \* mount_dir, fs and fs_type of the call in progress
    mnt_pc,         \* position inside mount_fs
    mnt_res,        \* the value the last call of mount_fs returned
    mnt_log,        \* the steps the call has taken, in order, with their outcome
    sink_at_entry,  \* mig_info as it was when the call began
    mnt_calls       \* how often mount_fs has been called

mtabVars == <<mtab_file, mtab_str, line_no, mounts, mtab_pc, mtab_res>>
archVars == <<uname_call, arch_pc, arch_res>>
whereisVars == <<files, whereis_cmd, whereis_call, whereis_pc, whereis_res>>
sbVars == <<efi_dir, mokutil_path, mokutil_call, sb_invoked, sb_pc, sb_res>>
mountVars == <<dirs, active_mounts, mig_info, mnt_args, mnt_pc, mnt_res, mnt_log,
               sink_at_entry, mnt_calls>>

vars == <<mtabVars, archVars, whereisVars, sbVars, mountVars>>

(***************************************************************************)
(* Bounds of the model                                                     *)
(***************************************************************************)
MaxLines == 3
MaxExitCode == 2
MaxOutLines == 2
MaxCalls == 2

(***************************************************************************)
(* Text primitives of the Rust standard library                            *)
(***************************************************************************)
None == [kind |-> "None"]

\* the White_Space characters the inputs of the model contain
WhiteSpace == {" ", "\t", "\n", "\r"}

\* str::starts_with
StartsWith(s, prefix) ==
    /\ Len(s) >= Len(prefix)
    /\ SubSeq(s, 1, Len(prefix)) = prefix

\* a line ending "\r\n" loses both characters
StripCR(line) ==
    IF Len(line) > 0 /\ line[Len(line)] = "\r"
    THEN SubSeq(line, 1, Len(line) - 1)
    ELSE line

\* str::lines: lines end at "\n" or "\r\n"; the last line need not be terminated,
\* and no empty line follows a final terminator
RECURSIVE LinesFrom(_, _, _)
LinesFrom(s, i, cur) ==
    IF i > Len(s)
    THEN IF cur = <<>> THEN <<>> ELSE <<cur>>
    ELSE IF s[i] = "\n"
         THEN <<StripCR(cur)>> \o LinesFrom(s, i + 1, <<>>)
         ELSE LinesFrom(s, i + 1, Append(cur, s[i]))

Lines(s) == LinesFrom(s, 1, <<>>)

\* str::split_whitespace: the maximal runs of non-whitespace characters
RECURSIVE SplitWhitespaceFrom(_, _, _)
SplitWhitespaceFrom(s, i, cur) ==
    IF i > Len(s)
    THEN IF cur = <<>> THEN <<>> ELSE <<cur>>
    ELSE IF s[i] \in WhiteSpace
         THEN (IF cur = <<>> THEN <<>> ELSE <<cur>>) \o SplitWhitespaceFrom(s, i + 1, <<>>)
         ELSE SplitWhitespaceFrom(s, i + 1, Append(cur, s[i]))

SplitWhitespace(s) == SplitWhitespaceFrom(s, 1, <<>>)

\* all sequences over S of length 0..n
SeqsUpTo(S, n) == UNION {[1..k -> S] : k \in 0..n}

LF == <<"\n">>
CRLF == <<"\r", "\n">>

\* the text made of the given lines, each followed by the line ending eol (the
\* last one only when terminated)
RECURSIVE JoinLines(_, _, _)
JoinLines(ls, eol, terminated) ==
    IF ls = <<>> THEN <<>>
    ELSE IF Len(ls) = 1
         THEN ls[1] \o (IF terminated THEN eol ELSE <<>>)
         ELSE ls[1] \o eol \o JoinLines(Tail(ls), eol, terminated)

(***************************************************************************)
(* The result of common::call: an error, or the CmdRes of a process that   *)
(* ran (status.success() is an exit code of 0)                             *)
(***************************************************************************)
CallErr == [kind |-> "Err"]
CmdRes(code, stdout, stderr) ==
    [kind |-> "Ok", code |-> code, stdout |-> stdout, stderr |-> stderr]
Success(cmd_res) == cmd_res.code = 0

Err(error) == [kind |-> "Err", error |-> error]

(***************************************************************************)
(* Idle values of the variables of the probes a specification leaves out   *)
(***************************************************************************)
MtabIdle ==
    /\ mtab_file = None
    /\ mtab_str = <<>>
    /\ line_no = 0
    /\ mounts = <<>>
    /\ mtab_pc = "idle"
    /\ mtab_res = None

ArchIdle ==
    /\ uname_call = None
    /\ arch_pc = "idle"
    /\ arch_res = None

WhereisIdle ==
    /\ files = {}
    /\ whereis_cmd = <<>>
    /\ whereis_call = None
    /\ whereis_pc = "idle"
    /\ whereis_res = None

SbIdle ==
    /\ efi_dir = "absent"
    /\ mokutil_path = None
    /\ mokutil_call = None
    /\ sb_invoked = <<>>
    /\ sb_pc = "idle"
    /\ sb_res = None

MountIdle ==
    /\ dirs = {}
    /\ active_mounts = <<>>
    /\ mig_info = <<>>
    /\ mnt_args = None
    /\ mnt_pc = "idle"
    /\ mnt_res = None
    /\ mnt_log = <<>>
    /\ sink_at_entry = <<>>
    /\ mnt_calls = 0

(***************************************************************************)
(* Mount::from_mtab                                                        *)
(***************************************************************************)
DEV_PREFIX == <<"/", "d", "e", "v", "/">>

\* lines an /etc/mtab can hold: device lines, pseudo file systems, short and
\* blank lines, with the separators the kernel and editors produce
MtabLineTexts == {
    <<"/","d","e","v","/","a"," ","/","m"," ","e","x","t","4"," ","r","w"," ","0"," ","0">>,
    <<"/","d","e","v","/","a"," ","/","n"," ","v","f","a","t">>,
    <<" ","/","d","e","v","/","b","\t","/","n"," "," ","v","f","a","t","\r">>,
    <<"p","r","o","c"," ","/","p"," ","p","r","o","c"," ","r","w">>,
    <<"/","d","e","v"," ","/","m"," ","e","x","t","4">>,
    <<"/","d","e","v","/","a"," ","/","m">>,
    <<"p","r","o","c"," ","/","p">>,
    <<" ","\t">>,
    <<>>
}

MtabTexts ==
    {JoinLines(ls, LF, t) : ls \in SeqsUpTo(MtabLineTexts, MaxLines), t \in BOOLEAN}

Unreadable == [readable |-> FALSE]

\* as HashMapInsert, but an occupied key keeps its value (entry().or_insert)
HashMapInsertKeepsFirst(map, key, value) ==
    [k \in DOMAIN map \cup {key} |-> IF k \in DOMAIN map THEN map[k] ELSE value]

\* HashMap::insert: the new value replaces the one the key had
HashMapInsert(map, key, value) ==
    [k \in DOMAIN map \cup {key} |-> IF k = key THEN value ELSE map[k]]

\* as IsBlockDevice, with the prefix "/dev" in place of "/dev/"
IsBlockDeviceNoSlash(device_name) == StartsWith(device_name, <<"/", "d", "e", "v">>)

\* mount.rs:46
IsBlockDevice(device_name) == StartsWith(device_name, DEV_PREFIX)

\* mount.rs:38
TooFewColumns(columns) == Len(columns) < 3

MtabInit ==
    /\ mtab_file \in {Unreadable} \cup {[readable |-> TRUE, text |-> t] : t \in MtabTexts}
    /\ mtab_str = <<>>
    /\ line_no = 0
    /\ mounts = <<>>
    /\ mtab_pc = "read"
    /\ mtab_res = None

\* read_to_string("/etc/mtab") and MountTab::new()
FromMtabRead ==
    /\ mtab_pc = "read"
    /\ IF mtab_file.readable
       THEN /\ mtab_str' = mtab_file.text
            /\ mtab_pc' = "loop"
            /\ mtab_res' = mtab_res
       ELSE /\ mtab_str' = mtab_str
            /\ mtab_pc' = "done"
            /\ mtab_res' = Err("Upstream")
    /\ UNCHANGED <<mtab_file, line_no, mounts>>
    /\ UNCHANGED <<archVars, whereisVars, sbVars, mountVars>>

\* as FromMtabLine, but a short line is skipped instead of failing the parse
FromMtabLineSkipsShort ==
    /\ mtab_pc = "loop"
    /\ line_no < Len(Lines(mtab_str))
    /\ LET columns == SplitWhitespace(Lines(mtab_str)[line_no + 1])
       IN mounts' = IF ~TooFewColumns(columns) /\ IsBlockDevice(columns[1])
                    THEN HashMapInsert(mounts, columns[1],
                             [mountpoint |-> columns[2], fs_type |-> columns[3]])
                    ELSE mounts
    /\ line_no' = line_no + 1
    /\ UNCHANGED <<mtab_file, mtab_str, mtab_pc, mtab_res>>
    /\ UNCHANGED <<archVars, whereisVars, sbVars, mountVars>>

\* one iteration of the loop over mtab_str.lines().enumerate()
FromMtabLine ==
    /\ mtab_pc = "loop"
    /\ line_no < Len(Lines(mtab_str))
    /\ LET line == Lines(mtab_str)[line_no + 1]
           columns == SplitWhitespace(line)
       IN IF TooFewColumns(columns)
          THEN /\ mtab_res' = [kind |-> "Err", error |-> "InvParam",
                               line_no |-> line_no, line |-> line]
               /\ mtab_pc' = "done"
               /\ UNCHANGED <<line_no, mounts>>
          ELSE /\ mounts' = IF IsBlockDevice(columns[1])
                            THEN HashMapInsert(mounts, columns[1],
                                     [mountpoint |-> columns[2], fs_type |-> columns[3]])
                            ELSE mounts
               /\ line_no' = line_no + 1
               /\ UNCHANGED <<mtab_pc, mtab_res>>
    /\ UNCHANGED <<mtab_file, mtab_str>>
    /\ UNCHANGED <<archVars, whereisVars, sbVars, mountVars>>

\* Ok(mounts)
FromMtabReturn ==
    /\ mtab_pc = "loop"
    /\ line_no = Len(Lines(mtab_str))
    /\ mtab_res' = [kind |-> "Ok", mounts |-> mounts]
    /\ mtab_pc' = "done"
    /\ UNCHANGED <<mtab_file, mtab_str, line_no, mounts>>
    /\ UNCHANGED <<archVars, whereisVars, sbVars, mountVars>>

MtabNext == FromMtabRead \/ FromMtabLine \/ FromMtabReturn

\* the state in which the probe is called; the other probes are idle
InitMtab == MtabInit /\ ArchIdle /\ WhereisIdle /\ SbIdle /\ MountIdle

MtabSpec == InitMtab /\ [][MtabNext]_vars

(***************************************************************************)
(* Properties of Mount::from_mtab                                          *)
(***************************************************************************)
\* the lines of the mount table and their columns, as the claims speak of them
MtabLineCount == Len(Lines(mtab_file.text))
MtabColumns(i) == SplitWhitespace(Lines(mtab_file.text)[i])
MtabDone == mtab_pc = "done" /\ mtab_file.readable

BeginsWithDev(c) ==
    Len(c) >= 5 /\ c[1] = "/" /\ c[2] = "d" /\ c[3] = "e" /\ c[4] = "v" /\ c[5] = "/"

DevLines == {i \in 1..MtabLineCount : BeginsWithDev(MtabColumns(i)[1])}
ShortLines == {i \in 1..MtabLineCount : Len(MtabColumns(i)) <= 2}
LinesOfDevice(k) == {i \in 1..MtabLineCount : MtabColumns(i)[1] = k}
MaxOf(S) == CHOOSE x \in S : \A y \in S : y <= x
MinOf(S) == CHOOSE x \in S : \A y \in S : x <= y

\* C1: when every line of the mount table has at least 3 columns, from_mtab
\* succeeds, the keys of the table are exactly the distinct column-0 values that
\* begin with "/dev/", and every entry holds column 1 and column 2 of a line of
\* its device.
C1_KeysAreTheDevDevices ==
    (MtabDone /\ ShortLines = {}) =>
        /\ mtab_res.kind = "Ok"
        /\ DOMAIN mtab_res.mounts = {MtabColumns(i)[1] : i \in DevLines}
        /\ \A k \in DOMAIN mtab_res.mounts :
              \E i \in LinesOfDevice(k) :
                 /\ mtab_res.mounts[k].mountpoint = MtabColumns(i)[2]
                 /\ mtab_res.mounts[k].fs_type = MtabColumns(i)[3]

\* a table of two devices was returned for a text that also holds a line of
\* another kind and a device line with trailing columns
C1_Witness ==
    /\ MtabDone /\ ShortLines = {}
    /\ mtab_res.kind = "Ok"
    /\ Cardinality(DOMAIN mtab_res.mounts) = 2
    /\ \E i \in 1..MtabLineCount : i \notin DevLines
    /\ \E i \in DevLines : Len(MtabColumns(i)) > 3

\* C2: a device that several lines name carries, in the returned table, the
\* mountpoint and the filesystem type of the last of these lines.
C2_LastWriteWins ==
    (MtabDone /\ mtab_res.kind = "Ok") =>
        \A k \in DOMAIN mtab_res.mounts :
            LET last == MaxOf(LinesOfDevice(k))
            IN mtab_res.mounts[k] = [mountpoint |-> MtabColumns(last)[2],
                                     fs_type |-> MtabColumns(last)[3]]

\* a device named by the first and the third line, with different mountpoints,
\* and another device on the line between them
C2_Witness ==
    /\ MtabDone
    /\ mtab_res.kind = "Ok"
    /\ \E i, j, l \in DevLines :
          /\ i < j /\ j < l
          /\ MtabColumns(i)[1] = MtabColumns(l)[1]
          /\ MtabColumns(j)[1] # MtabColumns(i)[1]
          /\ MtabColumns(i)[2] # MtabColumns(l)[2]

\* C3: when a line has 2 or fewer tokens, from_mtab fails with InvParam naming the
\* 0-based index of the first such line, and returns no table.
C3_ShortLineFailsTheParse ==
    (MtabDone /\ ShortLines # {}) =>
        /\ mtab_res.kind = "Err"
        /\ mtab_res.error = "InvParam"
        /\ mtab_res.line_no = MinOf(ShortLines) - 1
        /\ mtab_res.line = Lines(mtab_file.text)[MinOf(ShortLines)]
        /\ "mounts" \notin DOMAIN mtab_res

\* the parse failed at a blank second line, after a valid device line had been
\* entered into the table, and a later line is short as well
C3_Witness ==
    /\ MtabDone
    /\ mtab_res.kind = "Err"
    /\ mtab_res.line_no = 1
    /\ mtab_res.line = <<>>
    /\ DOMAIN mounts # {}
    /\ Cardinality(ShortLines) >= 2

(***************************************************************************)
(* get_os_arch                                                             *)
(***************************************************************************)
UpperCase == <<"A","B","C","D","E","F","G","H","I","J","K","L","M",
               "N","O","P","Q","R","S","T","U","V","W","X","Y","Z">>
LowerCase == <<"a","b","c","d","e","f","g","h","i","j","k","l","m",
               "n","o","p","q","r","s","t","u","v","w","x","y","z">>

\* char::to_lowercase and char::to_uppercase on the ASCII characters
ToLowerChar(c) ==
    IF \E i \in DOMAIN UpperCase : UpperCase[i] = c
    THEN LowerCase[CHOOSE i \in DOMAIN UpperCase : UpperCase[i] = c]
    ELSE c
ToUpperChar(c) ==
    IF \E i \in DOMAIN LowerCase : LowerCase[i] = c
    THEN UpperCase[CHOOSE i \in DOMAIN LowerCase : LowerCase[i] = c]
    ELSE c

\* str::to_lowercase
ToLowercase(s) == [i \in 1..Len(s) |-> ToLowerChar(s[i])]

X86_64 == <<"x","8","6","_","6","4">>
I386 == <<"i","3","8","6">>
ARMV7L == <<"a","r","m","v","7","l">>

\* every spelling of s in upper and lower case letters
RECURSIVE CaseVariants(_)
CaseVariants(s) ==
    IF s = <<>> THEN {<<>>}
    ELSE {<<c>> \o rest : c \in {s[1], ToUpperChar(s[1])}, rest \in CaseVariants(Tail(s))}

\* what `uname -m` can print, as call hands it on
UnameOutputs ==
    CaseVariants(X86_64) \cup CaseVariants(I386) \cup CaseVariants(ARMV7L) \cup
    { <<>>,
      <<"a","a","r","c","h","6","4">>,
      <<"A","A","R","C","H","6","4">>,
      <<"i","6","8","6">>,
      <<"x","8","6">>,
      <<"x","8","6","_","6","4","\n">>,
      <<"a","r","m","v","7","l"," ">>,
      <<"a","m","d","6","4">> }

UnameResults ==
    {CallErr} \cup {CmdRes(code, out, <<>>) : code \in 0..MaxExitCode, out \in UnameOutputs}

\* as OsArchOf, but stdout is compared as it is printed
OsArchOfCaseSensitive(cmd_res) ==
    IF Success(cmd_res)
    THEN IF cmd_res.stdout = X86_64 THEN [kind |-> "Ok", arch |-> "AMD64"]
         ELSE IF cmd_res.stdout = I386 THEN [kind |-> "Ok", arch |-> "I386"]
         ELSE IF cmd_res.stdout = ARMV7L THEN [kind |-> "Ok", arch |-> "ARMHF"]
         ELSE Err("InvParam")
    ELSE Err("ExecProcess")

\* utils.rs:27-46
OsArchOf(cmd_res) ==
    IF Success(cmd_res)
    THEN IF ToLowercase(cmd_res.stdout) = X86_64 THEN [kind |-> "Ok", arch |-> "AMD64"]
         ELSE IF ToLowercase(cmd_res.stdout) = I386 THEN [kind |-> "Ok", arch |-> "I386"]
         ELSE IF ToLowercase(cmd_res.stdout) = ARMV7L THEN [kind |-> "Ok", arch |-> "ARMHF"]
         ELSE Err("InvParam")
    ELSE Err("ExecProcess")

ArchInit ==
    /\ uname_call = None
    /\ arch_pc = "call"
    /\ arch_res = None

\* call(UNAME_CMD, &UNAME_ARGS_OS_ARCH, true).upstream_with_context(..)?
GetOsArchCall ==
    /\ arch_pc = "call"
    /\ \E r \in UnameResults :
         /\ uname_call' = r
         /\ IF r.kind = "Err"
            THEN arch_pc' = "done" /\ arch_res' = Err("Upstream")
            ELSE arch_pc' = "match" /\ arch_res' = arch_res
    /\ UNCHANGED <<mtabVars, whereisVars, sbVars, mountVars>>

\* the if/else chain over cmd_res
GetOsArchMatch ==
    /\ arch_pc = "match"
    /\ arch_res' = OsArchOf(uname_call)
    /\ arch_pc' = "done"
    /\ UNCHANGED uname_call
    /\ UNCHANGED <<mtabVars, whereisVars, sbVars, mountVars>>

ArchNext == GetOsArchCall \/ GetOsArchMatch

\* the state in which the probe is called; the other probes are idle
InitArch == ArchInit /\ MtabIdle /\ WhereisIdle /\ SbIdle /\ MountIdle

ArchSpec == InitArch /\ [][ArchNext]_vars

(***************************************************************************)
(* Properties of get_os_arch                                               *)
(***************************************************************************)
\* text equals name (given in lower case) up to the case of its letters
EqualsInAnyCase(text, name) ==
    /\ Len(text) = Len(name)
    /\ \A i \in 1..Len(name) : text[i] = name[i] \/ text[i] = ToUpperChar(name[i])

ArchDone == arch_pc = "done" /\ uname_call.kind = "Ok"

\* C4: get_os_arch returns only AMD64, I386 or ARMHF; after a successful exit,
\* x86_64, i386 and armv7l in any letter case give AMD64, I386 and ARMHF and every
\* other output is an error; after a non-zero exit the result is ExecProcess
\* whatever the output is.
C4_ArchIsClosedEnumeration ==
    ArchDone =>
        /\ arch_res.kind = "Ok" => arch_res.arch \in {"AMD64", "I386", "ARMHF"}
        /\ uname_call.code # 0 => arch_res = Err("ExecProcess")
        /\ uname_call.code = 0 =>
              /\ EqualsInAnyCase(uname_call.stdout, X86_64) =>
                    arch_res = [kind |-> "Ok", arch |-> "AMD64"]
              /\ EqualsInAnyCase(uname_call.stdout, I386) =>
                    arch_res = [kind |-> "Ok", arch |-> "I386"]
              /\ EqualsInAnyCase(uname_call.stdout, ARMV7L) =>
                    arch_res = [kind |-> "Ok", arch |-> "ARMHF"]
              /\ (/\ ~EqualsInAnyCase(uname_call.stdout, X86_64)
                  /\ ~EqualsInAnyCase(uname_call.stdout, I386)
                  /\ ~EqualsInAnyCase(uname_call.stdout, ARMV7L)) =>
                    arch_res.kind = "Err"

\* X86_64 in capitals was mapped to AMD64
C4_Witness ==
    /\ ArchDone
    /\ uname_call.code = 0
    /\ uname_call.stdout = <<"X","8","6","_","6","4">>
    /\ arch_res = [kind |-> "Ok", arch |-> "AMD64"]

(***************************************************************************)
(* whereis                                                                 *)
(***************************************************************************)
BIN_DIRS == << <<"/","b","i","n">>,
               <<"/","u","s","r","/","b","i","n">>,
               <<"/","s","b","i","n">>,
               <<"/","u","s","r","/","s","b","i","n">> >>

MOKUTIL_CMD == <<"m","o","k","u","t","i","l">>
Commands == {MOKUTIL_CMD, <<"d","d">>}

\* format!("{}/{}", &path, cmd)
BinPath(path, cmd) == path \o <<"/">> \o cmd

\* directories outside BIN_DIRS in which the locator finds binaries
OptPath(cmd) == <<"/","o","p","t","/">> \o cmd
LocalPath(cmd) == <<"/","u","s","r","/","l","o","c","a","l","/","b","i","n","/">> \o cmd

\* the files of cmd the file system may hold
CandidateFiles(cmd) ==
    {BinPath(BIN_DIRS[i], cmd) : i \in DOMAIN BIN_DIRS} \cup {OptPath(cmd)}

\* what `whereis -b cmd` can print, as call hands it on: nothing, the name
\* alone, the name and paths, and the same with other separators
LocatorOutputs(cmd) ==
    { <<>>,
      cmd \o <<":">>,
      cmd \o <<":", " ">>,
      cmd \o <<":", " ">> \o OptPath(cmd),
      cmd \o <<":", " ">> \o LocalPath(cmd),
      cmd \o <<":", " ">> \o OptPath(cmd) \o <<" ">> \o LocalPath(cmd),
      cmd \o <<":", " ", " ">> \o OptPath(cmd),
      cmd \o <<":", "\t">> \o OptPath(cmd),
      cmd \o <<":", "\t">> \o OptPath(cmd) \o <<" ">> \o LocalPath(cmd),
      <<" ">> }

LocatorResults(cmd) ==
    {CallErr} \cup
    {CmdRes(code, out, <<>>) : code \in 0..MaxExitCode, out \in LocatorOutputs(cmd)}

\* str::split(' '): the pieces between single space characters, empty pieces kept
RECURSIVE SplitSpaceFrom(_, _, _)
SplitSpaceFrom(s, i, cur) ==
    IF i > Len(s) THEN <<cur>>
    ELSE IF s[i] = " "
         THEN <<cur>> \o SplitSpaceFrom(s, i + 1, <<>>)
         ELSE SplitSpaceFrom(s, i + 1, Append(cur, s[i]))

SplitSpace(s) == SplitSpaceFrom(s, 1, <<>>)

Found(path) == [kind |-> "Ok", path |-> path]

\* utils.rs:107-114: the first of BIN_DIRS that holds cmd, if any
ManualLookup(fs, cmd) ==
    LET hits == {i \in DOMAIN BIN_DIRS : BinPath(BIN_DIRS[i], cmd) \in fs}
    IN IF hits = {} THEN None
       ELSE Found(BinPath(BIN_DIRS[CHOOSE i \in hits : \A j \in hits : i <= j], cmd))

\* as LocatorOutcome, but taking the first word of the output (words.next())
LocatorOutcomeFirstWord(call_res) ==
    IF call_res.kind = "Err" THEN Err("NotFound")
    ELSE IF Success(call_res)
         THEN IF call_res.stdout = <<>> THEN Err("InvParam")
              ELSE Found(SplitSpace(call_res.stdout)[1])
         ELSE Err("ExecProcess")

\* utils.rs:118-158: the result for what the locator command returned
LocatorOutcome(call_res) ==
    IF call_res.kind = "Err" THEN Err("NotFound")
    ELSE IF Success(call_res)
         THEN IF call_res.stdout = <<>> THEN Err("InvParam")
              ELSE LET words == SplitSpace(call_res.stdout)
                   IN IF Len(words) >= 2 THEN Found(words[2]) ELSE Err("NotFound")
         ELSE Err("ExecProcess")

WhereisInit ==
    /\ whereis_cmd \in Commands
    /\ files \in SUBSET CandidateFiles(whereis_cmd)
    /\ whereis_call = None
    /\ whereis_pc = "manual"
    /\ whereis_res = None

\* the loop over BIN_DIRS
WhereisManual ==
    /\ whereis_pc = "manual"
    /\ LET hit == ManualLookup(files, whereis_cmd)
       IN IF hit # None
          THEN whereis_res' = hit /\ whereis_pc' = "done"
          ELSE whereis_res' = whereis_res /\ whereis_pc' = "locate"
    /\ UNCHANGED <<files, whereis_cmd, whereis_call>>
    /\ UNCHANGED <<mtabVars, archVars, sbVars, mountVars>>

\* call(WHEREIS_CMD, &args, true) and the match on its result
WhereisLocate ==
    /\ whereis_pc = "locate"
    /\ \E r \in LocatorResults(whereis_cmd) :
         /\ whereis_call' = r
         /\ whereis_res' = LocatorOutcome(r)
    /\ whereis_pc' = "done"
    /\ UNCHANGED <<files, whereis_cmd>>
    /\ UNCHANGED <<mtabVars, archVars, sbVars, mountVars>>

WhereisNext == WhereisManual \/ WhereisLocate

\* the state in which the probe is called; the other probes are idle
InitWhereis == WhereisInit /\ MtabIdle /\ ArchIdle /\ SbIdle /\ MountIdle

WhereisSpec == InitWhereis /\ [][WhereisNext]_vars

(***************************************************************************)
(* Properties of whereis                                                   *)
(***************************************************************************)
LocatorAsked == whereis_pc = "done" /\ whereis_call # None

\* C8: a path whereis returns points at an existing file, whether it comes from
\* the fixed directories or from the locator command.
C8_ReturnedPathExists ==
    (whereis_pc = "done" /\ whereis_res.kind = "Ok") => whereis_res.path \in files

\* the positions of the space characters of s
SpacesOf(s) == {i \in 1..Len(s) : s[i] = " "}
\* the text between the first space of s and the next one (or the end)
AfterFirstSpace(s) ==
    LET first == MinOf(SpacesOf(s))
        later == {i \in SpacesOf(s) : i > first}
        stop == IF later = {} THEN Len(s) + 1 ELSE MinOf(later)
    IN SubSeq(s, first + 1, stop - 1)

\* C10, as claimed: the locator failing to run or exiting non-zero gives
\* ExecProcess, empty output gives InvParam, output without a second
\* whitespace-separated token gives NotFound, and otherwise the second
\* whitespace-separated token is returned.
C10_AsClaimed ==
    LocatorAsked =>
        IF whereis_call.kind = "Err" \/ whereis_call.code # 0
        THEN whereis_res = Err("ExecProcess")
        ELSE IF whereis_call.stdout = <<>>
        THEN whereis_res = Err("InvParam")
        ELSE IF Len(SplitWhitespace(whereis_call.stdout)) < 2
        THEN whereis_res = Err("NotFound")
        ELSE whereis_res = Found(SplitWhitespace(whereis_call.stdout)[2])

\* C10, amended: a locator that cannot be run gives NotFound and a non-zero exit
\* gives ExecProcess; empty output gives InvParam; output without a space
\* character gives NotFound; otherwise the text between the first space character
\* and the next one (or the end of the output), which may be empty, is returned.
C10_LocatorOutcomes ==
    LocatorAsked =>
        IF whereis_call.kind = "Err"
        THEN whereis_res = Err("NotFound")
        ELSE IF whereis_call.code # 0
        THEN whereis_res = Err("ExecProcess")
        ELSE IF whereis_call.stdout = <<>>
        THEN whereis_res = Err("InvParam")
        ELSE IF SpacesOf(whereis_call.stdout) = {}
        THEN whereis_res = Err("NotFound")
        ELSE whereis_res = Found(AfterFirstSpace(whereis_call.stdout))

\* no fixed directory held the command and the locator printed the name and
\* two paths, of which the first was returned
C10_Witness ==
    /\ LocatorAsked
    /\ \A i \in DOMAIN BIN_DIRS : BinPath(BIN_DIRS[i], whereis_cmd) \notin files
    /\ whereis_call.kind = "Ok" /\ whereis_call.code = 0
    /\ Len(SplitSpace(whereis_call.stdout)) = 3
    /\ whereis_res = Found(OptPath(whereis_cmd))

(***************************************************************************)
(* is_secure_boot                                                          *)
(***************************************************************************)
SECUREBOOT == <<"S","e","c","u","r","e","B","o","o","t">>
Enabled == <<"e","n","a","b","l","e","d">>
Disabled == <<"d","i","s","a","b","l","e","d">>
NOT_SUPPORTED ==
    <<"T","h","i","s"," ","s","y","s","t","e","m"," ","d","o","e","s","n","'","t"," ",
      "s","u","p","p","o","r","t"," ","S","e","c","u","r","e"," ","B","o","o","t">>

BoolOk(b) == [kind |-> "Ok", value |-> b]

\* lines `mokutil --sb-state` can print
SbLineTexts == {
    SECUREBOOT \o <<" ">> \o Enabled,
    SECUREBOOT \o <<" ">> \o Disabled,
    SECUREBOOT \o <<"\t", " ">> \o Enabled,
    SECUREBOOT \o <<" ">> \o Enabled \o <<" ">>,
    SECUREBOOT \o Enabled,
    <<"s","e","c","u","r","e","b","o","o","t"," ">> \o Disabled,
    <<" ">> \o SECUREBOOT \o <<" ">> \o Enabled,
    <<>>
}

SbStdouts(n) ==
    {JoinLines(ls, LF, t) : ls \in SeqsUpTo(SbLineTexts, n), t \in BOOLEAN} \cup
    {JoinLines(ls, CRLF, TRUE) : ls \in SeqsUpTo(SbLineTexts, n)}

SbStderrs == {
    NOT_SUPPORTED,
    NOT_SUPPORTED \o <<"\n">>,
    NOT_SUPPORTED \o <<" ","(","B","I","O","S",")">>,
    <<" ">> \o NOT_SUPPORTED,
    SubSeq(NOT_SUPPORTED, 1, Len(NOT_SUPPORTED) - 1),
    <<"E","F","I"," ","v","a","r","i","a","b","l","e","s"," ","a","r","e"," ",
      "n","o","t"," ","s","u","p","p","o","r","t","e","d">>
}

\* the helper's result: any output when stderr is empty, an output of at most
\* one line together with each stderr message
MokutilResults ==
    {CallErr} \cup
    {CmdRes(code, out, <<>>) : code \in {0, 1}, out \in SbStdouts(MaxOutLines)} \cup
    {CmdRes(code, out, err) : code \in {0, 1}, out \in SbStdouts(1), err \in SbStderrs}

\* the file systems is_secure_boot is run on
SbFileSystems == {
    {BinPath(BIN_DIRS[2], MOKUTIL_CMD)},
    {BinPath(BIN_DIRS[3], MOKUTIL_CMD), OptPath(MOKUTIL_CMD)},
    {OptPath(MOKUTIL_CMD)}
}

RECURSIVE LeadingWhiteSpace(_)
LeadingWhiteSpace(s) ==
    IF s # <<>> /\ Head(s) \in WhiteSpace THEN 1 + LeadingWhiteSpace(Tail(s)) ELSE 0

\* Regex ^SecureBoot\s+(disabled|enabled)$ on one line: the capture group, or None
RegexCaptures(line) ==
    IF ~StartsWith(line, SECUREBOOT) THEN None
    ELSE LET rest == SubSeq(line, Len(SECUREBOOT) + 1, Len(line))
             k == LeadingWhiteSpace(rest)
             word == SubSeq(rest, k + 1, Len(rest))
         IN IF k >= 1 /\ word \in {Disabled, Enabled}
            THEN [kind |-> "Some", word |-> word]
            ELSE None

\* as ScanStdout, but output without a matching line counts as disabled
ScanStdoutDefaultsToFalse(stdout) ==
    LET lines == Lines(stdout)
        hits == {i \in DOMAIN lines : RegexCaptures(lines[i]) # None}
    IN IF hits = {} THEN BoolOk(FALSE)
       ELSE BoolOk(RegexCaptures(lines[CHOOSE i \in hits : \A j \in hits : i <= j]).word = Enabled)

\* utils.rs:70-89: the loop over cmd_res.stdout.lines()
ScanStdout(stdout) ==
    LET lines == Lines(stdout)
        hits == {i \in DOMAIN lines : RegexCaptures(lines[i]) # None}
    IN IF hits = {} THEN Err("InvParam")
       ELSE BoolOk(RegexCaptures(lines[CHOOSE i \in hits : \A j \in hits : i <= j]).word = Enabled)

ExecProcessErr(text) == [kind |-> "Err", error |-> "ExecProcess", text |-> text]

\* as SecureBootOf, but stdout is scanned first and stderr read when nothing matches
SecureBootOfStdoutFirst(cmd_res) ==
    IF ScanStdout(cmd_res.stdout).kind = "Ok" \/ cmd_res.stderr = <<>>
    THEN ScanStdout(cmd_res.stdout)
    ELSE IF StartsWith(cmd_res.stderr, NOT_SUPPORTED)
         THEN BoolOk(FALSE)
         ELSE ExecProcessErr(cmd_res.stderr)

\* utils.rs:69-100
SecureBootOf(cmd_res) ==
    IF cmd_res.stderr = <<>>
    THEN ScanStdout(cmd_res.stdout)
    ELSE IF StartsWith(cmd_res.stderr, NOT_SUPPORTED)
         THEN BoolOk(FALSE)
         ELSE ExecProcessErr(cmd_res.stderr)

SbInit ==
    /\ efi_dir \in {"present", "absent", "error"}
    /\ files \in SbFileSystems
    /\ whereis_cmd = <<>>
    /\ whereis_call = None
    /\ whereis_pc = "idle"
    /\ whereis_res = None
    /\ mokutil_path = None
    /\ mokutil_call = None
    /\ sb_invoked = <<>>
    /\ sb_pc = "dir_exists"
    /\ sb_res = None

\* if dir_exists(SYS_EFI_DIR)? { .. } else { Ok(false) }
IsSecureBootDirExists ==
    /\ sb_pc = "dir_exists"
    /\ sb_invoked' = Append(sb_invoked, "dir_exists")
    /\ IF efi_dir = "error" THEN sb_res' = Err("Upstream") /\ sb_pc' = "done"
       ELSE IF efi_dir = "absent" THEN sb_res' = BoolOk(FALSE) /\ sb_pc' = "done"
       ELSE sb_res' = sb_res /\ sb_pc' = "whereis"
    /\ UNCHANGED <<efi_dir, mokutil_path, mokutil_call>>
    /\ UNCHANGED <<mtabVars, archVars, whereisVars, mountVars>>

\* whereis(MOKUTIL_CMD), run to its end: the fixed directories, then the locator
WhereisMokutil ==
    /\ whereis_cmd' = MOKUTIL_CMD
    /\ whereis_pc' = "done"
    /\ LET hit == ManualLookup(files, MOKUTIL_CMD)
       IN IF hit # None
          THEN whereis_res' = hit /\ whereis_call' = whereis_call
          ELSE \E r \in LocatorResults(MOKUTIL_CMD) :
                  whereis_call' = r /\ whereis_res' = LocatorOutcome(r)
    /\ UNCHANGED files

\* as IsSecureBootWhereis, but the resolver's error is handed up (whereis(..)?)
IsSecureBootWhereisPropagates ==
    /\ sb_pc = "whereis"
    /\ sb_invoked' = Append(sb_invoked, "whereis")
    /\ WhereisMokutil
    /\ IF whereis_res'.kind = "Ok"
       THEN mokutil_path' = whereis_res'.path /\ sb_pc' = "call" /\ sb_res' = sb_res
       ELSE mokutil_path' = mokutil_path /\ sb_pc' = "done" /\ sb_res' = Err("Upstream")
    /\ UNCHANGED <<efi_dir, mokutil_call>>
    /\ UNCHANGED <<mtabVars, archVars, mountVars>>

\* let mokutil_path = match whereis(MOKUTIL_CMD) { .. }
IsSecureBootWhereis ==
    /\ sb_pc = "whereis"
    /\ sb_invoked' = Append(sb_invoked, "whereis")
    /\ WhereisMokutil
    /\ IF whereis_res'.kind = "Ok"
       THEN mokutil_path' = whereis_res'.path /\ sb_pc' = "call" /\ sb_res' = sb_res
       ELSE mokutil_path' = mokutil_path /\ sb_pc' = "done" /\ sb_res' = BoolOk(FALSE)
    /\ UNCHANGED <<efi_dir, mokutil_call>>
    /\ UNCHANGED <<mtabVars, archVars, mountVars>>

\* call(&mokutil_path, &["--sb-state"], true)? and the reading of its result
IsSecureBootCall ==
    /\ sb_pc = "call"
    /\ sb_invoked' = Append(sb_invoked, "call")
    /\ \E r \in MokutilResults :
         /\ mokutil_call' = r
         /\ sb_res' = IF r.kind = "Err" THEN Err("Upstream") ELSE SecureBootOf(r)
    /\ sb_pc' = "done"
    /\ UNCHANGED <<efi_dir, mokutil_path>>
    /\ UNCHANGED <<mtabVars, archVars, whereisVars, mountVars>>

SbNext == IsSecureBootDirExists \/ IsSecureBootWhereis \/ IsSecureBootCall

\* the state in which the probe is called; the other probes are idle
InitSb == SbInit /\ MtabIdle /\ ArchIdle /\ MountIdle

SbSpec == InitSb /\ [][SbNext]_vars

(***************************************************************************)
(* Properties of is_secure_boot                                            *)
(***************************************************************************)
SbDone == sb_pc = "done"
Invoked(name) == \E i \in DOMAIN sb_invoked : sb_invoked[i] = name
HelperRan == SbDone /\ Invoked("call") /\ mokutil_call.kind = "Ok"

\* C5: is_secure_boot returns false, not an error, when the firmware directory is
\* absent, and then invokes neither the resolver nor the helper; and when the
\* directory exists and the resolver fails, and then does not invoke the helper.
\* These two are the only cases in which it returns without invoking the helper
\* and without an error.
C5_GracefulDegradation ==
    SbDone =>
        /\ efi_dir = "absent" =>
              sb_res = BoolOk(FALSE) /\ ~Invoked("whereis") /\ ~Invoked("call")
        /\ (efi_dir = "present" /\ whereis_res.kind = "Err") =>
              sb_res = BoolOk(FALSE) /\ Invoked("whereis") /\ ~Invoked("call")
        /\ (sb_res.kind = "Ok" /\ ~Invoked("call")) =>
              \/ efi_dir = "absent"
              \/ efi_dir = "present" /\ whereis_res.kind = "Err"

\* the directory exists, no fixed directory holds the helper, the locator could
\* not be run, and the probe returned false without running the helper
C5_Witness ==
    /\ SbDone
    /\ efi_dir = "present"
    /\ whereis_call = CallErr
    /\ whereis_res.kind = "Err"
    /\ sb_res = BoolOk(FALSE)
    /\ sb_invoked = <<"dir_exists", "whereis">>

\* the lines of the helper's stdout that match the pattern
SbMatches == {i \in DOMAIN Lines(mokutil_call.stdout) :
                 RegexCaptures(Lines(mokutil_call.stdout)[i]) # None}

\* C6: with the helper resolved and its stderr empty, the first stdout line that
\* matches the pattern decides the result (enabled: true, disabled: false), and
\* stdout without a matching line, empty stdout included, is an error (InvParam).
C6_FirstMatchOrError ==
    (HelperRan /\ mokutil_call.stderr = <<>>) =>
        IF SbMatches = {}
        THEN sb_res = Err("InvParam")
        ELSE \E i \in SbMatches :
               /\ \A j \in SbMatches : i <= j
               /\ sb_res = BoolOk(RegexCaptures(Lines(mokutil_call.stdout)[i]).word = Enabled)

\* two lines of stdout match, the first saying disabled and the second enabled,
\* and the result is false
C6_Witness ==
    /\ HelperRan /\ mokutil_call.stderr = <<>>
    /\ SbMatches = {1, 2}
    /\ RegexCaptures(Lines(mokutil_call.stdout)[1]).word = Disabled
    /\ RegexCaptures(Lines(mokutil_call.stdout)[2]).word = Enabled
    /\ sb_res = BoolOk(FALSE)

\* s begins with the "doesn't support Secure Boot" message
BeginsWithNotSupported(s) ==
    /\ Len(s) >= Len(NOT_SUPPORTED)
    /\ \A i \in 1..Len(NOT_SUPPORTED) : s[i] = NOT_SUPPORTED[i]

\* C7, as claimed: with stderr not empty the result is never true; it is false
\* when stderr is exactly the message, and ExecProcess with the stderr text for
\* any other stderr.
C7_AsClaimed ==
    (HelperRan /\ mokutil_call.stderr # <<>>) =>
        /\ sb_res # BoolOk(TRUE)
        /\ mokutil_call.stderr = NOT_SUPPORTED => sb_res = BoolOk(FALSE)
        /\ mokutil_call.stderr # NOT_SUPPORTED => sb_res = ExecProcessErr(mokutil_call.stderr)

\* C7, amended: with stderr not empty the result is decided by stderr alone and is
\* never true; it is false when stderr begins with the message, and ExecProcess
\* with the stderr text for any other stderr.
C7_StderrDecides ==
    (HelperRan /\ mokutil_call.stderr # <<>>) =>
        /\ sb_res # BoolOk(TRUE)
        /\ BeginsWithNotSupported(mokutil_call.stderr) => sb_res = BoolOk(FALSE)
        /\ ~BeginsWithNotSupported(mokutil_call.stderr) =>
              sb_res = ExecProcessErr(mokutil_call.stderr)

\* stdout says enabled, stderr holds the message followed by a line ending, and
\* the result is false
C7_Witness ==
    /\ HelperRan
    /\ mokutil_call.stderr = NOT_SUPPORTED \o <<"\n">>
    /\ SbMatches # {}
    /\ RegexCaptures(Lines(mokutil_call.stdout)[1]).word = Enabled
    /\ sb_res = BoolOk(FALSE)

(***************************************************************************)
(* mount_fs                                                                *)
(* A path is the sequence of its components.                               *)
(***************************************************************************)
MountDirs == { <<"mnt", "boot">>, <<"mnt", "work", "img">> }

FsSpecs == { [fs |-> "/dev/sda1", fs_type |-> "vfat"],
             [fs |-> "tmpfs", fs_type |-> "tmpfs"] }

\* the path and the directories above it
Ancestors(path) == {SubSeq(path, 1, k) : k \in 1..Len(path)}

AllDirs == UNION {Ancestors(d) : d \in MountDirs}

Step(op, ok) == [op |-> op, ok |-> ok]

MountInit ==
    /\ dirs \in {ds \in SUBSET AllDirs : \A d \in ds : Ancestors(d) \subseteq ds}
    /\ active_mounts = <<>>
    /\ mig_info = <<>>
    /\ mnt_args = None
    /\ mnt_pc = "idle"
    /\ mnt_res = None
    /\ mnt_log = <<>>
    /\ sink_at_entry = <<>>
    /\ mnt_calls = 0

\* the orchestrator calls mount_fs(mount_dir, fs, fs_type, mig_info)
MountFsEnter ==
    /\ mnt_pc = "idle"
    /\ mnt_calls < MaxCalls
    /\ \E d \in MountDirs, f \in FsSpecs :
         mnt_args' = [mount_dir |-> d, fs |-> f.fs, fs_type |-> f.fs_type]
    /\ mnt_pc' = "dir_exists"
    /\ mnt_res' = None
    /\ mnt_log' = <<>>
    /\ sink_at_entry' = mig_info
    /\ mnt_calls' = mnt_calls + 1
    /\ UNCHANGED <<dirs, active_mounts, mig_info>>
    /\ UNCHANGED <<mtabVars, archVars, whereisVars, sbVars>>

\* if !dir_exists(mount_dir)? { .. }
MountFsDirExists ==
    /\ mnt_pc = "dir_exists"
    /\ \/ /\ mnt_log' = Append(mnt_log, Step("dir_exists", FALSE))
          /\ mnt_res' = Err("Upstream")
          /\ mnt_pc' = "idle"
       \/ /\ mnt_log' = Append(mnt_log, Step("dir_exists", TRUE))
          /\ mnt_res' = mnt_res
          /\ mnt_pc' = IF mnt_args.mount_dir \in dirs THEN "mount" ELSE "create_dir_all"
    /\ UNCHANGED <<dirs, active_mounts, mig_info, mnt_args, sink_at_entry, mnt_calls>>
    /\ UNCHANGED <<mtabVars, archVars, whereisVars, sbVars>>

\* create_dir_all(mount_dir).upstream_with_context(..)?: on failure some of the
\* directories above mount_dir may have been made
MountFsCreateDirAll ==
    /\ mnt_pc = "create_dir_all"
    /\ \/ /\ dirs' = dirs \cup Ancestors(mnt_args.mount_dir)
          /\ mnt_log' = Append(mnt_log, Step("create_dir_all", TRUE))
          /\ mnt_res' = mnt_res
          /\ mnt_pc' = "mount"
       \/ /\ \E k \in 0..(Len(mnt_args.mount_dir) - 1) :
                dirs' = dirs \cup Ancestors(SubSeq(mnt_args.mount_dir, 1, k))
          /\ mnt_log' = Append(mnt_log, Step("create_dir_all", FALSE))
          /\ mnt_res' = Err("Upstream")
          /\ mnt_pc' = "idle"
    /\ UNCHANGED <<active_mounts, mig_info, mnt_args, sink_at_entry, mnt_calls>>
    /\ UNCHANGED <<mtabVars, archVars, whereisVars, sbVars>>

MountStep(ok) ==
    [op |-> "mount", ok |-> ok,
     dirs_present |-> Ancestors(mnt_args.mount_dir) \subseteq dirs]

\* as MountFsMount followed by MountFsAddMount, but the path is handed to
\* mig_info before the mount is made
MountFsMountTracksFirst ==
    /\ mnt_pc = "mount"
    /\ mig_info' = Append(mig_info, mnt_args.mount_dir)
    /\ \/ /\ active_mounts' = Append(active_mounts,
                  [source |-> mnt_args.fs, target |-> mnt_args.mount_dir,
                   fs_type |-> mnt_args.fs_type])
          /\ mnt_log' = mnt_log \o <<Step("add_mount", TRUE), MountStep(TRUE)>>
          /\ mnt_res' = [kind |-> "Ok"]
       \/ /\ active_mounts' = active_mounts
          /\ mnt_log' = mnt_log \o <<Step("add_mount", TRUE), MountStep(FALSE)>>
          /\ mnt_res' = Err("Upstream")
    /\ mnt_pc' = "idle"
    /\ UNCHANGED <<dirs, mnt_args, sink_at_entry, mnt_calls>>
    /\ UNCHANGED <<mtabVars, archVars, whereisVars, sbVars>>

\* mount(Some(fs), mount_dir, Some(fs_type), MsFlags::empty(), NIX_NONE)
\*     .upstream_with_context(..)?
MountFsMount ==
    /\ mnt_pc = "mount"
    /\ \/ /\ active_mounts' = Append(active_mounts,
                  [source |-> mnt_args.fs, target |-> mnt_args.mount_dir,
                   fs_type |-> mnt_args.fs_type])
          /\ mnt_log' = Append(mnt_log, MountStep(TRUE))
          /\ mnt_res' = mnt_res
          /\ mnt_pc' = "add_mount"
       \/ /\ active_mounts' = active_mounts
          /\ mnt_log' = Append(mnt_log, MountStep(FALSE))
          /\ mnt_res' = Err("Upstream")
          /\ mnt_pc' = "idle"
    /\ UNCHANGED <<dirs, mig_info, mnt_args, sink_at_entry, mnt_calls>>
    /\ UNCHANGED <<mtabVars, archVars, whereisVars, sbVars>>

\* mig_info.add_mount(mount_dir); Ok(())
MountFsAddMount ==
    /\ mnt_pc = "add_mount"
    /\ mig_info' = Append(mig_info, mnt_args.mount_dir)
    /\ mnt_log' = Append(mnt_log, Step("add_mount", TRUE))
    /\ mnt_res' = [kind |-> "Ok"]
    /\ mnt_pc' = "idle"
    /\ UNCHANGED <<dirs, active_mounts, mnt_args, sink_at_entry, mnt_calls>>
    /\ UNCHANGED <<mtabVars, archVars, whereisVars, sbVars>>

MountNext ==
    \/ MountFsEnter
    \/ MountFsDirExists
    \/ MountFsCreateDirAll
    \/ MountFsMount
    \/ MountFsAddMount

\* the state in which the probe is called; the other probes are idle
InitMount == MountInit /\ MtabIdle /\ ArchIdle /\ WhereisIdle /\ SbIdle

MountSpec == InitMount /\ [][MountNext]_vars

(***************************************************************************)
(* Properties of mount_fs                                                  *)
(***************************************************************************)
Took(op) == {i \in DOMAIN mnt_log : mnt_log[i].op = op}
Failed == {i \in DOMAIN mnt_log : ~mnt_log[i].ok}

\* C9: within a call of mount_fs, the mount is attempted only after every earlier
\* step succeeded and with the mount directory and the directories above it in
\* place; the path is added to the tracking sink only directly after a successful
\* mount; a failed directory creation is followed by no mount; and when any step
\* fails the sink is as it was when the call began.
C9_MountFsOrder ==
    /\ \A i \in Took("mount") :
          /\ mnt_log[i].dirs_present
          /\ \A j \in 1..(i - 1) : mnt_log[j].ok /\ mnt_log[j].op # "add_mount"
    /\ \A i \in Took("add_mount") :
          i > 1 /\ mnt_log[i - 1].op = "mount" /\ mnt_log[i - 1].ok
    /\ \A i \in Took("create_dir_all") : ~mnt_log[i].ok => Took("mount") = {}
    /\ Failed # {} => mig_info = sink_at_entry
    /\ mig_info = IF Took("add_mount") = {}
                  THEN sink_at_entry
                  ELSE Append(sink_at_entry, mnt_args.mount_dir)

\* a second call created a mount directory of three components, mounted it and
\* recorded it, after a first call had failed and left the sink empty
C9_Witness ==
    /\ mnt_pc = "idle"
    /\ mnt_calls = 2
    /\ mnt_res = [kind |-> "Ok"]
    /\ Len(mnt_args.mount_dir) = 3
    /\ Len(mnt_log) = 4
    /\ mnt_log[2] = Step("create_dir_all", TRUE)
    /\ sink_at_entry = <<>>
    /\ mig_info = <<mnt_args.mount_dir>>

====
